---- MODULE Spec2Model ----
(***************************************************************************)
(* Model of scraper_mauser.py: the field extraction chain, the price       *)
(* normaliser, the snapshot diff and the run of main().                     *)
(*                                                                         *)
(* Text is a sequence of one-character strings.  Two characters have names  *)
(* instead of glyphs: "EUR" is the euro sign and "NBSP" is U+00A0.          *)
(* Python's None is the one-element tuple None, which is no text because    *)
(* "None" is no character.  A float is the double itself: <<"dbl", m, e>>,  *)
(* <<"nan">> or <<"inf">>.                                                  *)
(***************************************************************************)
EXTENDS Integers, Sequences, FiniteSets, TLC

\* op, inp, out: one call of a pure function (its name, argument, result).
\* The rest is a run of main(): pc is its position, creds whether both
\* credentials are set, cfg the configured products, file the state file,
\* state the dictionary in memory, idx the loop position, changes_msgs the
\* pending notification entries, sent the messages handed to
\* send_discord_message.  loaded, results, trace, run and prev are history:
\* the dictionary as loaded, each product's outcome, the order of the
\* fetches, sleeps, saves and sends, and the documents of the previous run
\* if that run read every product and completed (<<>> otherwise).
VARIABLES op, inp, out,
          pc, creds, cfg, file, state, loaded, idx, changes_msgs,
          results, trace, sent, run, prev

funvars == <<op, inp, out>>
mainvars == <<pc, creds, cfg, file, state, loaded, idx, changes_msgs,
              results, trace, sent, run, prev>>
vars == <<op, inp, out, pc, creds, cfg, file, state, loaded, idx,
          changes_msgs, results, trace, sent, run, prev>>

---------------------------------------------------------------------------
(* Bounds of the checked input sets *)

MaxLen == 3
MaxGroups == 1
MaxTextLen == 2
MaxProducts == 2

---------------------------------------------------------------------------
(* Text *)

None == <<"None">>

Digits == {"0", "1", "2", "3", "4", "5", "6", "7", "8", "9"}

DigitVal(c) ==
  CASE c = "0" -> 0 [] c = "1" -> 1 [] c = "2" -> 2 [] c = "3" -> 3
    [] c = "4" -> 4 [] c = "5" -> 5 [] c = "6" -> 6 [] c = "7" -> 7
    [] c = "8" -> 8 [] c = "9" -> 9

Lower(c) == IF c = "N" THEN "n" ELSE IF c = "A" THEN "a" ELSE c

IsSpace(c) == c \in {" ", "NBSP"}

\* str.replace(c, "")
Remove(s, c) == SelectSeq(s, LAMBDA x : x # c)

\* str.replace(a, b) for single characters
Replace(s, a, b) == [i \in 1..Len(s) |-> IF s[i] = a THEN b ELSE s[i]]

\* str.strip(): U+00A0 is whitespace for Python
Strip(s) ==
  LET keep == {i \in 1..Len(s) : ~IsSpace(s[i])}
  IN IF keep = {} THEN <<>>
     ELSE LET lo == CHOOSE i \in keep : \A j \in keep : i <= j
              hi == CHOOSE i \in keep : \A j \in keep : j <= i
          IN SubSeq(s, lo, hi)

RECURSIVE NumVal(_)
NumVal(s) ==
  IF s = <<>> THEN 0
  ELSE 10 * NumVal(SubSeq(s, 1, Len(s) - 1)) + DigitVal(s[Len(s)])

Count(s, c) == Cardinality({i \in 1..Len(s) : s[i] = c})

\* all texts over alphabet A of length at most n
StrUpTo(A, n) == UNION {[1..k -> A] : k \in 0..n}

---------------------------------------------------------------------------
(* normalize_price *)

\* Natural numbers of any size: the sequence of base-10000 digits, most
\* significant first, without leading zeros; <<>> is 0.  In the operators
\* below an operand is bound once (v \in {a}) where it is used repeatedly,
\* so that it is evaluated once.
BigTrim(a) ==
  CHOOSE r \in
    {IF \A i \in 1..Len(v) : v[i] = 0 THEN <<>>
     ELSE SubSeq(v, CHOOSE i \in 1..Len(v) :
                      v[i] # 0 /\ \A j \in 1..(i - 1) : v[j] = 0,
                 Len(v)) : v \in {a}} : TRUE

BigZeros(n) == [i \in 1..n |-> 0]

\* x + y for sequences of digits; the carry into digit i comes from the
\* nearest digit sum to its right that is not exactly 9999, if there is one
BigAdd(x, y) ==
  CHOOSE r \in
    {LET n == (IF Len(v) > Len(w) THEN Len(v) ELSE Len(w)) + 1
         sum(i) == (IF i > n - Len(v) THEN v[i - (n - Len(v))] ELSE 0)
                   + (IF i > n - Len(w) THEN w[i - (n - Len(w))] ELSE 0)
         carry(i) ==
           IF \A m \in (i + 1)..n : sum(m) = 9999 THEN 0
           ELSE IF sum(CHOOSE j \in (i + 1)..n :
                         /\ sum(j) # 9999
                         /\ \A m \in (i + 1)..(j - 1) : sum(m) = 9999) >= 10000
           THEN 1 ELSE 0
     IN BigTrim([i \in 1..n |-> (sum(i) + carry(i)) % 10000]) :
     v \in {x}, w \in {y}} : TRUE

\* a * k for 0 <= k <= 10000
BigMul(a, k) ==
  CHOOSE r \in
    {BigAdd([i \in 1..Len(v) |-> (v[i] * k) % 10000],
            [i \in 1..Len(v) |-> (v[i] * k) \div 10000] \o <<0>>) :
     v \in {a}} : TRUE

\* a * k^c
RECURSIVE BigMulPow(_, _, _)
BigMulPow(a, k, c) ==
  IF c = 0 THEN a
  ELSE IF c = 1 THEN BigMul(a, k)
  ELSE CHOOSE r \in {BigMulPow(v, k, c - c \div 2) :
                     v \in {BigMulPow(a, k, c \div 2)}} : TRUE

\* a * 2^j, thirteen bits (a factor 2^13 = 8192) at a time
MulPow2(a, j) == BigMul(BigMulPow(a, 8192, j \div 13), 2^(j % 13))

BigLess(a, b) ==
  \E v \in {a}, w \in {b} :
    \/ Len(v) < Len(w)
    \/ /\ Len(v) = Len(w)
       /\ v # w
       /\ LET i == CHOOSE i \in 1..Len(v) :
                     v[i] # w[i] /\ \A j \in 1..(i - 1) : v[j] = w[j]
          IN v[i] < w[i]

\* the number a decimal numeral (a text of digits) denotes
BigFromText(ds) ==
  CHOOSE r \in
    {BigTrim([i \in 1..(Len(padded) \div 4) |->
                NumVal(SubSeq(padded, 4 * i - 3, 4 * i))]) :
     padded \in {[i \in 1..((4 - (Len(ds) % 4)) % 4) |-> "0"] \o ds}} : TRUE

DigitChar(d) == CHOOSE c \in Digits : DigitVal(c) = d

\* the decimal numeral of a, without leading zeros
BigToText(a) ==
  CHOOSE r \in
    {IF v = <<>> THEN <<"0">>
     ELSE LET digit(i) ==
                LET limb == v[(i - 1) \div 4 + 1]
                    pos == (i - 1) % 4
                IN DigitChar(CASE pos = 0 -> limb \div 1000
                               [] pos = 1 -> (limb \div 100) % 10
                               [] pos = 2 -> (limb \div 10) % 10
                               [] pos = 3 -> limb % 10)
              first == CHOOSE i \in 1..4 :
                         digit(i) # "0" /\ \A j \in 1..(i - 1) : digit(j) = "0"
          IN [i \in 1..(4 * Len(v) - first + 1) |-> digit(i + first - 1)] :
     v \in {a}} : TRUE

\* A fixed-point number <<s, n>> is s / 10000^n: the last n digits of s are
\* its fraction.  x * 2^k, exactly; dividing by 2^4 is multiplying by 625
\* and moving the point one digit.
Scaled(x, k) ==
  IF k >= 0 THEN <<MulPow2(x[1], k), x[2]>>
  ELSE <<BigMul(BigMulPow(x[1], 625, (-k) \div 4), 10000 \div 2^((-k) % 4)),
         x[2] + (-k) \div 4 + 1>>

\* x rounded to an integer, half to even
RoundHalfEven(x) ==
  CHOOSE r \in
    {LET n == v[2]
         len == Len(v[1])
         whole == IF len > n THEN SubSeq(v[1], 1, len - n) ELSE <<>>
         frac(i) == IF i > n - len THEN v[1][i - (n - len)] ELSE 0
         tail0 == \A j \in 2..n : frac(j) = 0
         half == n > 0 /\ frac(1) = 5000 /\ tail0
         above == n > 0 /\ (frac(1) > 5000 \/ (frac(1) = 5000 /\ ~tail0))
     IN IF above \/ (half /\ len > n /\ v[1][len - n] % 2 = 1)
        THEN BigAdd(whole, <<1>>) ELSE whole : v \in {x}} : TRUE

\* 2^52 and 2^53: the significand m of a normal double is in [2^52, 2^53)
Two52 == <<4503, 5996, 2737, 496>>
Two53 == <<9007, 1992, 5474, 992>>

\* A finite double is <<"dbl", m, e>>, the number m / 2^e (m * 2^(-e) for
\* e < 0), with m in [2^52, 2^53), or m < 2^52 and e = 1074 (subnormals and
\* zero).  The significand after rounding: 2^53 is renormalised, and a
\* double of 2^1024 or more is infinity.
Double(m, e) ==
  CHOOSE r \in
    {LET mm == IF v = Two53 THEN Two52 ELSE v
         ee == IF v = Two53 THEN e - 1 ELSE e
     IN IF ee <= -972 THEN <<"inf">> ELSE <<"dbl", mm, ee>> :
     v \in {m}} : TRUE

\* x * 2^k >= 2^52
Reaches52(x, k) ==
  IF k <= 52 THEN ~BigLess(x[1], MulPow2(<<1>>, 52 - k) \o BigZeros(x[2]))
  ELSE ~BigLess(MulPow2(x[1], k - 52), <<1>> \o BigZeros(x[2]))

\* the least k in lo..hi with x * 2^k >= 2^52, hi if there is none
RECURSIVE LeastExponent(_, _, _)
LeastExponent(x, lo, hi) ==
  IF lo >= hi THEN hi
  ELSE LET mid == (lo + hi - ((lo + hi) % 2)) \div 2
       IN IF Reaches52(x, mid) THEN LeastExponent(x, lo, mid)
          ELSE LeastExponent(x, mid + 1, hi)

\* strtod of the decimal numeral w.f (texts of digits): the nearest double,
\* ties to the even significand.  10000^d lies between 2^(13d) and 2^(14d),
\* which brackets the exponent.
NearestDouble(w, f) ==
  CHOOSE r \in
    {IF x[1] = <<>> THEN <<"dbl", <<>>, 1074>>
     ELSE LET d == Len(x[1]) - x[2]
              lo == 52 - (IF d >= 0 THEN 14 * d ELSE 13 * d)
              hi == 52 - (IF d >= 1 THEN 13 * (d - 1) ELSE 14 * (d - 1))
          IN CHOOSE q \in
               {Double(RoundHalfEven(Scaled(x, e)), e) :
                e \in {IF hi > 1074
                       THEN LeastExponent(x, IF lo > 1074 THEN 1074 ELSE lo,
                                          1074)
                       ELSE LeastExponent(x, lo, hi)}} : TRUE :
     x \in {<<BigFromText(w \o f \o [i \in 1..((4 - (Len(f) % 4)) % 4)
                                       |-> "0"]),
              (Len(f) + 3) \div 4>>}} : TRUE

\* float(v) on the texts the inputs can produce: a decimal numeral
\* (digits with at most one point and at least one digit) or "nan" in any
\* letter case; everything else is a ValueError.  Signs, exponents,
\* underscores and "inf" need characters outside the input alphabets.
PyFloat(v) ==
  IF Len(v) = 3 /\ Lower(v[1]) = "n" /\ Lower(v[2]) = "a" /\ Lower(v[3]) = "n"
  THEN <<"nan">>
  ELSE IF /\ \A i \in 1..Len(v) : v[i] \in Digits \cup {"."}
          /\ Count(v, ".") <= 1
          /\ \E i \in 1..Len(v) : v[i] \in Digits
       THEN LET dots == {i \in 1..Len(v) : v[i] = "."}
                p == IF dots = {} THEN Len(v) + 1 ELSE CHOOSE i \in dots : TRUE
            IN NearestDouble(SubSeq(v, 1, p - 1), SubSeq(v, p + 1, Len(v)))
       ELSE <<"ValueError">>

\* the decimal numeral of c hundredths: <<w, hh>>, the whole part w and the
\* two decimals hh as texts of digits
Hundredths(c) ==
  CHOOSE r \in
    {LET d == IF Len(t) < 3 THEN [i \in 1..(3 - Len(t)) |-> "0"] \o t ELSE t
     IN <<SubSeq(d, 1, Len(d) - 2), SubSeq(d, Len(d) - 1, Len(d))>> :
     t \in {BigToText(c)}} : TRUE

\* the exact value of the finite double x, rounded to two decimals with
\* ties to even, as a numeral
RoundedNumeral(x) ==
  Hundredths(RoundHalfEven(Scaled(<<BigMul(x[2], 100), 0>>, -x[3])))

\* round(x, 2): the double nearest to the two-decimal numeral of x; nan and
\* inf are returned as they are.
PyRound2(x) ==
  IF x[1] # "dbl" THEN x
  ELSE CHOOSE r \in {NearestDouble(s[1], s[2]) : s \in {RoundedNumeral(x)}} :
         TRUE

normalize_price_nodots(val) ==
  IF val = None \/ val = <<>> THEN None
  ELSE CHOOSE r \in
         {IF x = <<"ValueError">> THEN None ELSE PyRound2(x) :
          x \in {PyFloat(Replace(
                   Remove(Remove(Remove(val, "EUR"), " "), "NBSP"),
                   ",", "."))}} : TRUE

normalize_price(val) ==
  IF val = None \/ val = <<>> THEN None
  ELSE CHOOSE r \in
         {IF x = <<"ValueError">> THEN None ELSE PyRound2(x) :
          x \in {PyFloat(Replace(
                   Remove(Remove(Remove(Remove(val, "EUR"), " "), "NBSP"),
                          "."),
                   ",", "."))}} : TRUE

-----
\* Regular expressions: a character class cls in a group, repeated one or
\* more times (RePlus) or zero or more times (ReStar), searched as re.search
\* does: leftmost match, greedy repetition.

NoRegex == [present |-> FALSE, cls |-> {}, star |-> FALSE]
RePlus(c) == [present |-> TRUE, cls |-> c, star |-> FALSE]
ReStar(c) == [present |-> TRUE, cls |-> c, star |-> TRUE]

InClass(c, cls, ignorecase) ==
  IF ignorecase THEN Lower(c) \in {Lower(x) : x \in cls} ELSE c \in cls

\* the maximal run of class characters of text that starts at position i
RunFrom(text, i, cls, ic) ==
  LET stops == {j \in i..Len(text) : ~InClass(text[j], cls, ic)}
      e == IF stops = {} THEN Len(text)
           ELSE (CHOOSE j \in stops : \A k \in stops : j <= k) - 1
  IN SubSeq(text, i, e)

\* re.search(regex, text, flags): group 1 of the match, or None
ReSearch(regex, text, ic) ==
  IF regex.star THEN RunFrom(text, 1, regex.cls, ic)
  ELSE LET hits == {i \in 1..Len(text) : InClass(text[i], regex.cls, ic)}
       IN IF hits = {} THEN None
          ELSE RunFrom(text, CHOOSE i \in hits : \A j \in hits : i <= j,
                       regex.cls, ic)

---------------------------------------------------------------------------
(* Field extraction.  soup maps a selector to the text of the first node    *)
(* it selects, or to None; "" stands for a selector that is not configured. *)

Selectors == {"#price", "#stock"}

extract_with_selector_strict(soup, selector, regex) ==
  IF selector = "" THEN None
  ELSE IF soup[selector] = None THEN None
  ELSE LET text == Strip(soup[selector])
       IN IF regex.present THEN ReSearch(regex, text, FALSE) ELSE text

extract_with_selector(soup, selector, regex) ==
  IF selector = "" THEN None
  ELSE IF soup[selector] = None THEN None
  ELSE LET text == Strip(soup[selector])
           m == IF regex.present THEN ReSearch(regex, text, FALSE) ELSE None
       IN IF regex.present /\ m # None THEN m ELSE text

extract_from_html(html, regex_full_html) ==
  IF ~regex_full_html.present THEN None
  ELSE ReSearch(regex_full_html, html, TRUE)

\* "not x" of Python for an optional text
Falsy(x) == x = None \/ x = <<>>

\* fetch_product, one field: the selector step, then the fallback step
raw_field(doc, rule) ==
  LET r == extract_with_selector(doc.soup, rule.selector, rule.regex)
  IN IF Falsy(r) THEN extract_from_html(doc.html, rule.regex_full_html) ELSE r

NoRule == [selector |-> "", regex |-> NoRegex, regex_full_html |-> NoRegex]

\* fetch_product after a successful GET of document doc
fetch_product(pconf, doc) ==
  LET raw_price == raw_field(doc, pconf.price)
      raw_stock == raw_field(doc, pconf.stock)
  IN [url |-> pconf.url,
      name |-> IF pconf.name # "" THEN pconf.name ELSE pconf.url,
      price |-> normalize_price(raw_price),
      raw_price |-> raw_price,
      stock |-> IF Falsy(raw_stock) THEN None ELSE raw_stock]

---------------------------------------------------------------------------
(* diff_values.  old is <<>> (None) or <<snapshot>>.                        *)

\* Python's != on two optional floats: nan is unequal to everything
PyNe(a, b) == a = <<"nan">> \/ b = <<"nan">> \/ a # b

diff_values(old, new) ==
  IF old = <<>> THEN << <<"novo_registo">> >>
  ELSE (IF PyNe(old[1].price, new.price)
        THEN << <<"preco", old[1].price, new.price>> >> ELSE <<>>)
       \o (IF old[1].stock # new.stock
           THEN << <<"stock", old[1].stock, new.stock>> >> ELSE <<>>)

---------------------------------------------------------------------------
(* The run of main() *)

PriceChars == Digits \cup {".", ","}

\* documents a GET can return
DocA == [html |-> <<"4", "9", ",", "9", "0">>,
         soup |-> [s \in Selectors |->
                     IF s = "#price" THEN <<"4", "9", ",", "9", "0", " ", "EUR">>
                     ELSE <<"1">>]]
DocB == [html |-> <<"1", "4", ",", "9", "0">>,
         soup |-> [s \in Selectors |->
                     IF s = "#price" THEN <<"1", "4", ",", "9", "0", " ", "EUR">>
                     ELSE <<"1">>]]
DocN == [html |-> <<"N", "a", "N">>,
         soup |-> [s \in Selectors |->
                     IF s = "#price" THEN <<"N", "a", "N", " ", "EUR">>
                     ELSE None]]
Docs == {DocA, DocB, DocN}

\* the outcome of session.get + raise_for_status for one product
NoDoc == [html |-> <<>>, soup |-> [s \in Selectors |-> None]]
FetchOutcomes == {[raised |-> TRUE, doc |-> NoDoc]}
                 \cup {[raised |-> FALSE, doc |-> d] : d \in Docs}

\* configured products; "" is a name that is not configured
P1 == [url |-> "u1", name |-> "p1",
       price |-> [selector |-> "#price", regex |-> RePlus(PriceChars),
                  regex_full_html |-> NoRegex],
       stock |-> [selector |-> "#stock", regex |-> NoRegex,
                  regex_full_html |-> NoRegex]]
P2 == [url |-> "u2", name |-> "",
       price |-> [selector |-> "", regex |-> NoRegex,
                  regex_full_html |-> RePlus(PriceChars)],
       stock |-> NoRule]
PX == [url |-> "u3", name |-> "old", price |-> P2.price, stock |-> NoRule]
Products == {P1, P2}
Configs == UNION {[1..n -> Products] : n \in 0..MaxProducts}

\* fetch_product on every configured product and document, evaluated once
FetchTable ==
  {[pconf |-> p, doc |-> d, data |-> fetch_product(p, d)] :
     p \in Products, d \in Docs}

Fetch(p, d) == (CHOOSE r \in FetchTable : r.pconf = p /\ r.doc = d).data

\* a dictionary is a function on the set of its keys
EmptyDict == [u \in {} |-> None]
DictGet(d, k) == IF k \in DOMAIN d THEN <<d[k]>> ELSE <<>>
DictSet_drop(d, k, v) == [u \in {k} |-> v]
DictSet(d, k, v) == [u \in DOMAIN d \cup {k} |-> IF u = k THEN v ELSE d[u]]

\* data/state.json: absent, a JSON document holding a state, or a file
\* that a failed write left empty or cut short
NoFile == [kind |-> "absent", data |-> EmptyDict]
JsonFile(d) == [kind |-> "json", data |-> d]
TruncatedFile == [kind |-> "truncated", data |-> EmptyDict]

\* state files left by earlier runs: none, one with a configured product,
\* one that also holds a product that is no longer configured, a cut one
InitFiles == {NoFile,
              JsonFile(DictSet(EmptyDict, "u1", fetch_product(P1, DocA))),
              JsonFile(DictSet(DictSet(EmptyDict, "u1",
                                       fetch_product(P1, DocA)),
                               "u3", fetch_product(PX, DocB))),
              TruncatedFile}

NoChangesMsg == [kind |-> "no_changes", entries |-> <<>>]
ChangesMsg(msgs) == [kind |-> "changes", entries |-> msgs]
LoginWarning == [kind |-> "login_failed", entries |-> <<>>]

MainInit ==
  /\ pc = "start"
  /\ creds \in BOOLEAN
  /\ cfg \in Configs
  /\ file \in InitFiles
  /\ state = EmptyDict
  /\ loaded = EmptyDict
  /\ idx = 1
  /\ changes_msgs = <<>>
  /\ results = <<>>
  /\ trace = <<>>
  /\ sent = <<>>
  /\ run = "first"
  /\ prev = <<>>

\* main, lines 158-163: the credential check, load_config, load_state.
\* load_state gives {} when there is no file and raises when the file
\* cannot be opened or is not a JSON document.
Start ==
  /\ pc = "start"
  /\ \E o \in {"ok", "config_error", "state_error"} :
       IF ~creds
       THEN /\ pc' = "aborted"
            /\ trace' = Append(trace, <<"raise", "RuntimeError">>)
            /\ UNCHANGED <<state, loaded>>
       ELSE IF o = "config_error"
       THEN /\ pc' = "aborted"
            /\ trace' = Append(trace, <<"raise", "config_error">>)
            /\ UNCHANGED <<state, loaded>>
       ELSE IF file.kind = "truncated"
               \/ (o = "state_error" /\ file.kind = "json")
       THEN /\ pc' = "aborted"
            /\ trace' = Append(trace, <<"raise", "state_error">>)
            /\ UNCHANGED <<state, loaded>>
       ELSE /\ pc' = "login"
            /\ state' = file.data
            /\ loaded' = file.data
            /\ UNCHANGED trace
  /\ UNCHANGED <<creds, cfg, file, idx, changes_msgs, results, sent, run, prev>>
  /\ UNCHANGED funvars

\* login_mauser returns True whether or not the check page confirms the
\* login; a failed request raises
login_mauser(o) == o \in {"confirmed", "unconfirmed"}

\* main, lines 169-175
Login ==
  /\ pc = "login"
  /\ \E o \in {"confirmed", "unconfirmed", "raise"} :
       IF o = "raise"
       THEN /\ pc' = "aborted"
            /\ trace' = Append(trace, <<"raise", "login">>)
            /\ UNCHANGED <<sent, changes_msgs>>
       ELSE IF ~login_mauser(o)
       THEN /\ pc' = "done"
            /\ sent' = Append(sent, LoginWarning)
            /\ trace' = Append(trace, <<"send">>)
            /\ UNCHANGED changes_msgs
       ELSE /\ pc' = "loop"
            /\ changes_msgs' = <<>>
            /\ UNCHANGED <<sent, trace>>
  /\ UNCHANGED <<creds, cfg, file, state, loaded, idx, results, run, prev>>
  /\ UNCHANGED funvars

Label(p, default) == IF p.name # "" THEN p.name ELSE default

\* lines 189-192: the entry the except branch appends for product p
ErrEntry(p) ==
  [kind |-> "error", label |-> Label(p, p.url), url |-> "", changes |-> <<>>]

\* lines 183-187: the pending entries after a product was read
OkEntries_always(msgs, p, data, changes) ==
  Append(msgs, [kind |-> "changes", label |-> Label(p, "Produto"),
                url |-> data.url, changes |-> changes])

OkEntries(msgs, p, data, changes) ==
  IF changes # <<>>
  THEN Append(msgs, [kind |-> "changes", label |-> Label(p, "Produto"),
                     url |-> data.url, changes |-> changes])
  ELSE msgs

\* the calls of one iteration that read product i: fetch_product, then
\* time.sleep(1.0) at the end of the try block
OkCalls_saving(i) == << <<"fetch", i>>, <<"save">>, <<"sleep">> >>

OkCalls(i) == << <<"fetch", i>>, <<"sleep">> >>

\* the calls of one iteration whose fetch_product raised: the except branch
\* is entered before the sleep
FailCalls(i) == << <<"fetch", i>> >>

\* the for loop goes on to the next product after either branch
NextIdx_exit(i, raised) == IF raised THEN Len(cfg) + 1 ELSE i + 1

NextIdx(i, raised) == i + 1

\* one iteration of the for loop, lines 176-192
Product ==
  /\ pc = "loop"
  /\ idx <= Len(cfg)
  /\ \E o \in FetchOutcomes :
       LET p == cfg[idx]
           data == Fetch(p, o.doc)
           changes == diff_values(DictGet(state, data.url), data)
       IN IF o.raised
          THEN /\ changes_msgs' = Append(changes_msgs, ErrEntry(p))
               /\ results' = Append(results,
                     [raised |-> TRUE, doc |-> o.doc, changes |-> <<>>])
               /\ trace' = trace \o FailCalls(idx)
               /\ idx' = NextIdx(idx, TRUE)
               /\ UNCHANGED state
          ELSE /\ state' = DictSet(state, data.url, data)
               /\ changes_msgs' = OkEntries(changes_msgs, p, data, changes)
               /\ results' = Append(results,
                     [raised |-> FALSE, doc |-> o.doc, changes |-> changes])
               /\ trace' = trace \o OkCalls(idx)
               /\ idx' = NextIdx(idx, FALSE)
  /\ UNCHANGED <<pc, creds, cfg, file, loaded, sent, run, prev>>
  /\ UNCHANGED funvars

\* save_state(state) after the loop, line 194.  It raises when the
\* directory or the file cannot be opened, which leaves the file as it was,
\* and when writing fails after open(..., "w") has emptied the file.
Save ==
  /\ pc = "loop"
  /\ idx > Len(cfg)
  /\ \E o \in {"ok", "raise_open", "raise_write"} :
       IF o = "ok"
       THEN /\ file' = JsonFile(state)
            /\ trace' = Append(trace, <<"save">>)
            /\ pc' = "notify"
       ELSE /\ trace' = trace \o << <<"save">>, <<"raise", "save">> >>
            /\ pc' = "aborted"
            /\ file' = IF o = "raise_open" THEN file ELSE TruncatedFile
  /\ UNCHANGED <<creds, cfg, state, loaded, idx, changes_msgs, results, sent,
                 run, prev>>
  /\ UNCHANGED funvars

\* the message of lines 196-197
Content(msgs) == IF msgs # <<>> THEN ChangesMsg(msgs) ELSE NoChangesMsg

\* send_discord_message(content), line 198; it raises nothing
Notify ==
  /\ pc = "notify"
  /\ sent' = Append(sent, Content(changes_msgs))
  /\ trace' = Append(trace, <<"send">>)
  /\ pc' = "done"
  /\ UNCHANGED <<creds, cfg, file, state, loaded, idx, changes_msgs, results,
                 run, prev>>
  /\ UNCHANGED funvars

\* the scheduler starts the program again: a new process, the same
\* environment, configuration and state file
NextRun ==
  /\ pc \in {"done", "aborted"}
  /\ run = "first"
  /\ run' = "second"
  /\ prev' = IF pc = "done" /\ \A i \in 1..Len(results) : ~results[i].raised
             THEN <<[i \in 1..Len(results) |-> results[i].doc]>>
             ELSE <<>>
  /\ pc' = "start"
  /\ state' = EmptyDict
  /\ loaded' = EmptyDict
  /\ idx' = 1
  /\ changes_msgs' = <<>>
  /\ results' = <<>>
  /\ trace' = <<>>
  /\ sent' = <<>>
  /\ UNCHANGED <<creds, cfg, file>>
  /\ UNCHANGED funvars

FunIdle == op = "none" /\ inp = <<>> /\ out = <<>>

Init == MainInit /\ FunIdle

Next == Start \/ Login \/ Product \/ Save \/ Notify \/ NextRun

Spec == Init /\ [][Next]_vars

---------------------------------------------------------------------------
(* Calls of the pure functions on bounded inputs *)

MainIdle ==
  /\ pc = "idle"
  /\ creds = FALSE
  /\ cfg = <<>>
  /\ file = NoFile
  /\ state = EmptyDict
  /\ loaded = EmptyDict
  /\ idx = 1
  /\ changes_msgs = <<>>
  /\ results = <<>>
  /\ trace = <<>>
  /\ sent = <<>>
  /\ run = "first"
  /\ prev = <<>>

\* raw prices: every text of at most MaxLen characters, the formatted
\* prices with up to MaxGroups thousands groups, and long prices
NormAlphabet ==
  {"0", "1", "5", "9", ".", ",", "EUR", " ", "NBSP", "n", "a", "N"}

OneGroup == {<<".", "0", "0", "0">>, <<".", "0", "0", "5">>,
             <<".", "9", "5", "0">>}

RECURSIVE GroupTexts(_)
GroupTexts(k) ==
  IF k = 0 THEN {<<>>}
  ELSE {g \o t : g \in OneGroup, t \in GroupTexts(k - 1)}

FormattedPrices ==
  {pre \o i \o g \o <<",">> \o f \o suf :
     pre \in {<<>>, <<"EUR">>, <<"EUR", " ">>},
     i \in StrUpTo({"1", "9"}, 3) \ {<<>>},
     g \in UNION {GroupTexts(k) : k \in 0..MaxGroups},
     f \in [1..2 -> {"0", "9"}],
     suf \in {<<>>, <<" ", "EUR">>, <<"NBSP", "EUR">>}}

\* a third decimal of 5 (a tie in decimal, not in binary), a long fraction,
\* prices of 15 and 16 digits, and one of 310 digits (104 groups)
LongPrices ==
  {<<"0", ",", "1", "2", "5">>,
   <<"1", ",", "0", "0", "5">>,
   <<"9", ",", "9", "9", "5">>,
   <<"2", ",", "6", "7", "5">>,
   <<"0", ",", "1", "1", "4">> \o [i \in 1..17 |-> "9"],
   <<"9", ".", "9", "9", "9", ".", "9", "9", "9", ".", "9", "9", "9", ".",
     "9", "9", "9", ",", "9", "9">>,
   <<"9", "0", ".", "0", "7", "1", ".", "9", "9", "2", ".", "5", "4", "7", ".",
     "4", "0", "9", ",", "9", "3">>,
   <<"EUR", "7", "0", ".", "3", "6", "8", ".", "7", "4", "4", ".", "1", "7",
     "7", ".", "6", "6", "4", ",", "0", "1">>,
   <<"1">> \o [i \in 1..412 |-> IF i % 4 = 1 THEN "." ELSE "0"]
     \o <<",", "0", "0">>}

NormInputs ==
  {None} \cup StrUpTo(NormAlphabet, MaxLen) \cup FormattedPrices
    \cup LongPrices

NormInit == MainIdle /\ op = "pending" /\ inp \in NormInputs /\ out = <<>>

NormalizePrice ==
  /\ op = "pending"
  /\ op' = "normalize_price"
  /\ out' = normalize_price(inp)
  /\ UNCHANGED inp
  /\ UNCHANGED mainvars

SpecNorm == NormInit /\ [][NormalizePrice]_vars

\* snapshots to compare
SampleRawPrices == {None, <<"N", "a", "N">>, <<"4", "9", ",", "9", "0">>,
                    <<"1", "4", ",", "9", "0">>}
SampleStocks == {None, <<"1">>, <<"0">>}
Snapshots ==
  {[url |-> "u1", name |-> "p1", price |-> normalize_price(r),
    raw_price |-> r, stock |-> k] : r \in SampleRawPrices, k \in SampleStocks}

DiffInit ==
  /\ MainIdle
  /\ op = "pending"
  /\ inp \in [old : {<<>>} \cup {<<s>> : s \in Snapshots}, new : Snapshots]
  /\ out = <<>>

DiffValues ==
  /\ op = "pending"
  /\ op' = "diff_values"
  /\ out' = diff_values(inp.old, inp.new)
  /\ UNCHANGED inp
  /\ UNCHANGED mainvars

SpecDiff == DiffInit /\ [][DiffValues]_vars

\* documents and rules for one field
ExtAlphabet == {"4", "n", "N", " "}
ExtTexts == StrUpTo(ExtAlphabet, MaxTextLen)
ExtDocs ==
  {[html |-> h,
    soup |-> [s \in Selectors |-> IF s = "#price" THEN n ELSE None]] :
      h \in ExtTexts, n \in ExtTexts \cup {None}}
ExtRules ==
  [selector : {"", "#price"},
   regex : {NoRegex, RePlus({"4"}), ReStar({"4"})},
   regex_full_html : {NoRegex, RePlus({"n"})}]

ExtractInit ==
  /\ MainIdle
  /\ op = "pending"
  /\ inp \in [doc : ExtDocs, rule : ExtRules]
  /\ out = <<>>

\* fetch_product, lines 125 and 129-130, for one field; fallback records
\* whether the branch of line 129 was taken
ExtractField ==
  /\ op = "pending"
  /\ op' = "raw_field"
  /\ out' = [value |-> raw_field(inp.doc, inp.rule),
             fallback |-> Falsy(extract_with_selector(
                 inp.doc.soup, inp.rule.selector, inp.rule.regex))]
  /\ UNCHANGED inp
  /\ UNCHANGED mainvars

SpecExtract == ExtractInit /\ [][ExtractField]_vars

---------------------------------------------------------------------------
(* Properties *)

Decoration == {"EUR", " ", "NBSP"}

\* text t without its leading and trailing euro signs and spaces
Undecorated(t) ==
  LET keep == {i \in 1..Len(t) : t[i] \notin Decoration}
  IN IF keep = {} THEN <<>>
     ELSE SubSeq(t, CHOOSE i \in keep : \A j \in keep : i <= j,
                    CHOOSE i \in keep : \A j \in keep : j <= i)

\* t is 1-3 digits, then groups of a dot and 3 digits, a comma and 2 digits
IsGroupedDecimal(t) ==
  /\ Len(t) >= 4
  /\ t[Len(t) - 2] = ","
  /\ t[Len(t) - 1] \in Digits
  /\ t[Len(t)] \in Digits
  /\ LET body == SubSeq(t, 1, Len(t) - 3)
         dots == {i \in 1..Len(body) : body[i] = "."}
         first == IF dots = {} THEN Len(body) + 1
                  ELSE CHOOSE i \in dots : \A j \in dots : i <= j
     IN /\ first \in 2..4
        /\ (Len(body) - first + 1) % 4 = 0
        /\ \A i \in 1..Len(body) :
             IF i >= first /\ (i - first) % 4 = 0
             THEN body[i] = "." ELSE body[i] \in Digits

IsFormattedPrice(val) == val # None /\ IsGroupedDecimal(Undecorated(val))

OnlyDigits(t) == SelectSeq(t, LAMBDA c : c \in Digits)

\* what is left of val once euro signs and spaces are deleted cannot be
\* read as a number: it is not "nan" between the dots, and it holds a
\* character that is no digit, dot or comma, or two commas, or no digit
NotANumber(val) ==
  LET rem == SelectSeq(val, LAMBDA c : c \notin Decoration)
      nodots == SelectSeq(rem, LAMBDA c : c # ".")
  IN /\ [i \in 1..Len(nodots) |-> Lower(nodots[i])] # <<"n", "a", "n">>
     /\ \/ \E i \in 1..Len(rem) : rem[i] \notin Digits \cup {".", ","}
        \/ Count(rem, ",") >= 2
        \/ \A i \in 1..Len(rem) : rem[i] \notin Digits

\* the digits of a formatted price before and after its comma
WholeDigits(val) ==
  SubSeq(OnlyDigits(val), 1, Len(OnlyDigits(val)) - 2)

CentDigits(val) ==
  SubSeq(OnlyDigits(val), Len(OnlyDigits(val)) - 1, Len(OnlyDigits(val)))

\* C8 as stated: for a formatted price normalize_price returns the number
\* read with the dots deleted and the comma as decimal point: a finite
\* number whose two decimals are the price's and whose whole part is the
\* numeral before the comma.
C8_NumeralPreserved ==
  (op = "normalize_price" /\ IsFormattedPrice(inp)) =>
    /\ out[1] = "dbl"
    /\ RoundedNumeral(out)
         = <<BigToText(BigFromText(WholeDigits(inp))), CentDigits(inp)>>

\* C8 amended: normalize_price returns None for None and for the empty
\* text; for a formatted price (1-3 digits, dot-prefixed groups of 3 digits,
\* a comma and 2 digits, with euro signs and spaces around it) it returns the
\* double nearest to the number read with the dots deleted and the comma as
\* decimal point (infinity from 2^1024), which shows the price's own numeral
\* when the price has at most 15 digits; and it returns None, raising
\* nothing, exactly when the input is empty or its remainder is not a number.
C8_NormalizePrice ==
  op = "normalize_price" =>
    /\ (inp = None \/ inp = <<>>) => out = None
    /\ IsFormattedPrice(inp) =>
         /\ out = NearestDouble(WholeDigits(inp), CentDigits(inp))
         /\ Len(OnlyDigits(inp)) <= 15 =>
              /\ out[1] = "dbl"
              /\ RoundedNumeral(out)
                   = <<BigToText(BigFromText(WholeDigits(inp))),
                       CentDigits(inp)>>
    /\ out = None <=> (inp = None \/ inp = <<>> \/ NotANumber(inp))

\* a price of 16 digits with thousands groups was normalised to a double
\* that shows other decimals than the price
C8_Witness ==
  /\ op = "normalize_price"
  /\ IsFormattedPrice(inp)
  /\ Count(inp, ".") >= 1
  /\ Len(OnlyDigits(inp)) = 16
  /\ out = NearestDouble(WholeDigits(inp), CentDigits(inp))
  /\ RoundedNumeral(out)[2] # CentDigits(inp)

\* C2 as stated: diff_values is [NewRecord] when previous is None; otherwise
\* a PriceChanged(old, new) entry iff the prices are unequal, then a
\* StockChanged(old, new) entry iff the stocks are unequal, and nothing else;
\* diff_values(S, S) is empty.
C2_DiffValues ==
  op = "diff_values" =>
    IF inp.old = <<>> THEN out = << <<"novo_registo">> >>
    ELSE LET o == inp.old[1]
             n == inp.new
         IN /\ out = (IF o.price # n.price
                      THEN << <<"preco", o.price, n.price>> >> ELSE <<>>)
                     \o (IF o.stock # n.stock
                         THEN << <<"stock", o.stock, n.stock>> >> ELSE <<>>)
            /\ o = n => out = <<>>

\* C1 as stated: a selector that finds a node, with a selector regex that
\* does not match the node's trimmed text, resolves the field to None.
C1_RegexMissYieldsNone ==
  (/\ op = "raw_field"
   /\ inp.rule.selector # ""
   /\ inp.doc.soup[inp.rule.selector] # None
   /\ inp.rule.regex.present
   /\ ReSearch(inp.rule.regex, Strip(inp.doc.soup[inp.rule.selector]), FALSE)
        = None)
  => out.value = None

\* the selector of the rule finds a node in the document
NodeFound == inp.rule.selector # "" /\ inp.doc.soup[inp.rule.selector] # None

NodeText == Strip(inp.doc.soup[inp.rule.selector])

\* C1 amended: when the selector finds a node and the selector regex is
\* present but does not match the node's trimmed text, the field is that
\* unfiltered text and the fallback is not consulted, unless the text is
\* empty; the fallback is consulted exactly when there is no selector, no
\* node, or the selector step gave an empty text (an empty node text or an
\* empty capture), and then its result is the field.
C1_RegexMissYieldsText ==
  op = "raw_field" =>
    /\ (/\ NodeFound
        /\ inp.rule.regex.present
        /\ ReSearch(inp.rule.regex, NodeText, FALSE) = None
        /\ NodeText # <<>>)
       => (out.value = NodeText /\ ~out.fallback)
    /\ out.fallback <=>
         \/ ~NodeFound
         \/ NodeText = <<>>
         \/ /\ inp.rule.regex.present
            /\ ReSearch(inp.rule.regex, NodeText, FALSE) = <<>>
    /\ out.fallback =>
         out.value = extract_from_html(inp.doc.html, inp.rule.regex_full_html)

\* the regex missed a found node although the fallback would have matched
C1_Witness ==
  /\ op = "raw_field"
  /\ NodeFound
  /\ inp.rule.regex.present
  /\ ReSearch(inp.rule.regex, NodeText, FALSE) = None
  /\ extract_from_html(inp.doc.html, inp.rule.regex_full_html) # None
  /\ out.value = NodeText
  /\ ~out.fallback

Fetches == SelectSeq(trace, LAMBDA e : e[1] = "fetch")

Positions(e) == {k \in 1..Len(trace) : trace[k] = e}

FetchPositions == {k \in 1..Len(trace) : trace[k][1] = "fetch"}

InLoopOrAfter == pc \in {"loop", "notify", "done"}

\* C3: the products are attempted once each in configuration order, a
\* failed fetch adds exactly one error entry and does not end the loop: the
\* fetches so far are those of products 1, 2, ... in order, every product
\* before the loop position has an outcome, the loop is left only after the
\* last product, and there is one error entry per failed product.
C3_EveryProductOnce ==
  InLoopOrAfter =>
    /\ Fetches = [i \in 1..Len(Fetches) |-> <<"fetch", i>>]
    /\ Len(Fetches) = idx - 1
    /\ Len(results) = idx - 1
    /\ idx <= Len(cfg) + 1
    /\ pc \in {"notify", "done"} => Len(Fetches) = Len(cfg)
    /\ Cardinality({k \in 1..Len(changes_msgs) : changes_msgs[k].kind = "error"})
         = Cardinality({i \in 1..Len(results) : results[i].raised})

\* the first of two products failed and the second was still read
C3_Witness ==
  /\ pc = "done"
  /\ Len(cfg) = 2
  /\ results[1].raised
  /\ ~results[2].raised
  /\ Fetches = << <<"fetch", 1>>, <<"fetch", 2>> >>

Urls == {"u1", "u2", "u3"}

\* the products read so far whose URL is u
ReadFor(u) == {i \in 1..Len(results) : cfg[i].url = u /\ ~results[i].raised}

\* C4: during and after the loop, for every URL: if a product with that URL
\* was read in this run, the entry is the snapshot built from the last such
\* read; otherwise the entry is the one loaded at run start, absent or
\* present.
C4_StoreContent ==
  InLoopOrAfter =>
    \A u \in Urls :
      IF ReadFor(u) # {}
      THEN LET i == CHOOSE i \in ReadFor(u) : \A j \in ReadFor(u) : j <= i
           IN DictGet(state, u) = <<Fetch(cfg[i], results[i].doc)>>
      ELSE DictGet(state, u) = DictGet(loaded, u)

\* a product with a stored entry failed, another was read, and the entry of
\* a product that is no longer configured is still there
C4_Witness ==
  /\ pc = "done"
  /\ \E i \in 1..Len(results) : results[i].raised /\ cfg[i].url \in DOMAIN loaded
  /\ \E i \in 1..Len(results) : ~results[i].raised
  /\ "u3" \in DOMAIN state

\* C5 as stated: a run with credentials ends normally with exactly one
\* message sent; only a run without credentials ends abnormally.
C5_AlwaysOneNotification ==
  pc \in {"done", "aborted"} =>
    IF creds THEN pc = "done" /\ Len(sent) = 1 ELSE pc = "aborted"

\* C6: save_state is not called before the last product was processed; once
\* the run is past the save it was called exactly once, after every fetch
\* and before the message is sent, failed products or not.
C6_SaveOnce ==
  /\ (pc = "loop" /\ idx <= Len(cfg)) => Positions(<<"save">>) = {}
  /\ (pc \in {"notify", "done"}
       \/ (pc = "aborted" /\ Positions(<<"raise", "save">>) # {})) =>
       /\ Cardinality(Positions(<<"save">>)) = 1
       /\ Len(results) = Len(cfg)
       /\ \A k \in Positions(<<"save">>) :
            /\ \A j \in FetchPositions : j < k
            /\ \A j \in Positions(<<"send">>) : k < j

\* the state was saved after a run in which a product failed
C6_Witness ==
  /\ pc = "done"
  /\ Len(cfg) = 2
  /\ results[2].raised
  /\ Cardinality(Positions(<<"save">>)) = 1

\* the products that have something to report
Noisy == {i \in 1..Len(results) : results[i].raised \/ results[i].changes # <<>>}

ExpectedEntry(i) ==
  IF results[i].raised
  THEN [kind |-> "error",
        label |-> IF cfg[i].name # "" THEN cfg[i].name ELSE cfg[i].url,
        url |-> "", changes |-> <<>>]
  ELSE [kind |-> "changes",
        label |-> IF cfg[i].name # "" THEN cfg[i].name ELSE "Produto",
        url |-> cfg[i].url, changes |-> results[i].changes]

\* C7: the message sent is the no-changes message iff no product changed
\* and none failed; otherwise it is one message whose entries are, in
\* configuration order, one per product that changed (with all its changes)
\* or failed, and none for a product read without changes.
C7_NotificationContent ==
  pc = "done" =>
    /\ Len(sent) = 1
    /\ sent[1] = NoChangesMsg <=> Noisy = {}
    /\ Noisy # {} =>
         /\ sent[1].kind = "changes"
         /\ Len(sent[1].entries) = Cardinality(Noisy)
         /\ \A i \in Noisy :
              sent[1].entries[Cardinality({j \in Noisy : j <= i})]
                = ExpectedEntry(i)

\* a product without changes and a failed product: one entry
C7_Witness ==
  /\ pc = "done"
  /\ Len(cfg) = 2
  /\ ~results[1].raised /\ results[1].changes = <<>>
  /\ results[2].raised
  /\ Len(sent[1].entries) = 1

\* C9 as stated: between two successive fetches of a run there is a sleep.
C9_SleepBetweenFetches ==
  \A j, k \in FetchPositions :
    j < k => \E m \in (j + 1)..(k - 1) : trace[m] = <<"sleep">>

\* C10 as stated: with pairwise distinct product URLs, a second run that
\* reads every product and sees the documents of the first run, which read
\* every product too, detects no change, sends the no-changes message and
\* saves the state it loaded.
C10_RerunIdempotent ==
  (/\ run = "second"
   /\ pc = "done"
   /\ prev # <<>>
   /\ \A i, j \in 1..Len(cfg) : i # j => cfg[i].url # cfg[j].url
   /\ \A i \in 1..Len(cfg) :
        /\ ~results[i].raised
        /\ results[i].doc = prev[1][i])
  => /\ \A i \in 1..Len(cfg) : results[i].changes = <<>>
     /\ sent = <<NoChangesMsg>>
     /\ file = JsonFile(loaded)

====
